---- MODULE Spec2Model ----
(***************************************************************************)
(* Book Reviews API (src/app.py): two collections (books, reviews of a     *)
(* book) in a relational store, read through a Redis side-cache with a     *)
(* fixed expiry and invalidated on write.  Every request is a process      *)
(* whose steps are the handler's calls to the store and to the cache, so   *)
(* that requests can interleave as threads of the server do.               *)
(***************************************************************************)
EXTENDS Integers, Sequences, FiniteSets, TLC

\* ------------------------------------------------------------------ bounds
NumProcs == 2       \* request threads that can be in flight together
MaxOps   == 3       \* requests started in one behaviour
MaxTime  == 12      \* the clock stops here
Quantum  == 4       \* the clock advances in steps of this many seconds
MaxBooks == 2       \* book ids a request can name are 1..MaxBooks
MaxFaults == 1      \* store and cache calls that raise in one behaviour

\* ------------------------------------------------------- program constants
expire_time == 10           \* set_cache(..., expire_time: int = 10)
CurrentYear == 2026 \* datetime.now(timezone.utc).year

Procs   == 1..NumProcs
BookIds == 1..MaxBooks

\* ------------------------------------------------------------ JSON values
\* A JSON value of a request body or of a column: tagged, as Python's
\* dynamic typing distinguishes str, int, float and None at run time.  A
\* float is held in tenths: JFloat(37) is 3.7.
JNull  == [t |-> "null"]
JStr(s) == [t |-> "str", v |-> s]
JInt(i) == [t |-> "int", v |-> i]
JFloat(tenths) == [t |-> "float", v |-> tenths]

\* Python truthiness of a JSON value (`if data.get('isbn')`, `if x`).
Truthy(j) ==
  CASE j.t = "null" -> FALSE
    [] j.t = "str"  -> j.v # <<>>
    [] j.t = "int"  -> j.v # 0
    [] j.t = "float" -> j.v # 0

\* str.strip(): a string is a sequence of one-character strings.
RECURSIVE LStrip(_)
LStrip(s) == IF s # <<>> /\ Head(s) = " " THEN LStrip(Tail(s)) ELSE s

RECURSIVE RStrip(_)
RStrip(s) ==
  IF s # <<>> /\ s[Len(s)] = " " THEN RStrip(SubSeq(s, 1, Len(s) - 1)) ELSE s

Strip(s) == RStrip(LStrip(s))

\* dict.get(field, default)
Get(data, field, default) ==
  IF field \in DOMAIN data THEN data[field] ELSE default

\* ---------------------------------------------------------------- state
VARIABLES
  books,     \* table books, in insertion order
  reviews,   \* table reviews, in insertion order
  cache,     \* Redis: key -> entry or NoEntry
  now,       \* the clock, in seconds
  pc,        \* pc[p]: where request p is in its handler
  req,       \* req[p]: the request p serves
  loc,       \* loc[p]: the handler's local variables
  resp,      \* resp[p]: the response p returns
  trace,     \* trace[p]: the store and cache calls p has made, with outcome
  nops,      \* requests started so far
  nfaults,   \* store and cache calls that have raised so far
  acked,     \* ids of the records whose write returned 201 after its
             \* invalidation reached the cache, per collection key
  fresh,     \* keys invalidated by a 201 write and not read since
  wiped      \* keys emptied by a wipe of the cache and not read since

vars == <<books, reviews, cache, now, pc, req, loc, resp, trace, nops,
          nfaults, acked, fresh, wiped>>

\* ----------------------------------------------------------------- cache
BOOKS_CACHE_KEY == <<"books:all">>
REVIEWS_CACHE_KEY_PREFIX == "reviews:book:"
ReviewsKey(b) == <<REVIEWS_CACHE_KEY_PREFIX, b>>

\* The prefix of a key per book, which no handler uses.
BOOK_CACHE_KEY_PREFIX == "book:"
BookKey(b) == <<BOOK_CACHE_KEY_PREFIX, b>>
BookKeys == {BookKey(b) : b \in BookIds}

Keys == {BOOKS_CACHE_KEY} \cup {ReviewsKey(b) : b \in BookIds} \cup BookKeys

NoEntry == [t |-> "absent"]

\* json.dumps(data, default=str) and json.loads(cached_data)
Dumps(data) == [t |-> "json", v |-> data]
Miss == [hit |-> FALSE]
\* (faulty variant: a value that does not parse is handed over as it is)
Loads_raw(e) == [hit |-> TRUE, v |-> e.v]

Loads(e) == IF e.t = "json" THEN [hit |-> TRUE, v |-> e.v] ELSE Miss

\* redis_client.setex(key, expire_time, value)
setex(c, key, seconds, value) ==
  [c EXCEPT ![key] = [t |-> value.t, v |-> value.v, exp |-> now + seconds]]

\* redis_client.delete(key)
\* (faulty variant: every key is deleted)
delete_all(c, key) == [k \in Keys |-> NoEntry]

\* (faulty variant: a deleted key keeps a marker instead of being absent)
delete_tombstone(c, key) ==
  [c EXCEPT ![key] = [t |-> "deleted", v |-> <<>>, exp |-> now + 1]]

delete(c, key) == [c EXCEPT ![key] = NoEntry]

\* Redis drops an entry once its expiry has passed.
\* (faulty variant: entries are kept for ever)
Expire_never(c, time) == c

Expire(c, time) ==
  [k \in Keys |-> IF c[k] # NoEntry /\ c[k].exp <= time THEN NoEntry ELSE c[k]]

\* ----------------------------------------------------------------- store
\* Book.to_dict / Review.to_dict: the view keeps every column; created_at
\* becomes its ISO-8601 string, which is one-to-one with the timestamp.
IsoFormat(time) == <<"iso", time>>

Book_to_dict(b) ==
  [id |-> b.id, title |-> b.title, author |-> b.author, isbn |-> b.isbn,
   publication_year |-> b.publication_year,
   created_at |-> IsoFormat(b.created_at)]

Review_to_dict(r) ==
  [id |-> r.id, book_id |-> r.book_id, reviewer_name |-> r.reviewer_name,
   rating |-> r.rating, review_text |-> r.review_text,
   created_at |-> IsoFormat(r.created_at)]

\* db.select(Book) ... .all(): every book, in insertion order
\* (faulty variant: the books come newest first)
ListBooks_reversed(bs) ==
  [i \in 1..Len(bs) |-> Book_to_dict(bs[Len(bs) + 1 - i])]

ListBooks(bs) == [i \in 1..Len(bs) |-> Book_to_dict(bs[i])]

\* db.session.get(Book, book_id)
\* (faulty variant: every id finds a book)
BookExists_any(bs, id) == TRUE

BookExists(bs, id) == \E i \in 1..Len(bs) : bs[i].id = id

\* book.title of the book db.session.get returned
TitleOf(bs, id) == bs[CHOOSE i \in 1..Len(bs) : bs[i].id = id].title

\* Book.query.filter_by(isbn=...).first()
\* (faulty variant: the query never finds a book)
IsbnUsed_never(bs, isbn) == FALSE

IsbnUsed(bs, isbn) == \E i \in 1..Len(bs) : bs[i].isbn = isbn

\* Review.query.filter_by(book_id=...): the rows of one book
ReviewsOf(rs, id) == {i \in 1..Len(rs) : rs[i].book_id = id}

\* ... .order_by(Review.created_at.desc()).all(): the rows of the book,
\* newest first; rows with the same timestamp come in an order the
\* database chooses.
\* (faulty variant: no order_by, the rows come in insertion order)
ListReviews_unordered(rs, id) ==
  LET S == ReviewsOf(rs, id)
      n == Cardinality(S)
  IN  {[i \in 1..n |-> Review_to_dict(rs[f[i]])] :
         f \in {g \in [1..n -> S] : \A i, j \in 1..n : i < j => g[i] < g[j]}}

ListReviews(rs, id) ==
  LET S == ReviewsOf(rs, id)
      n == Cardinality(S)
  IN  {[i \in 1..n |-> Review_to_dict(rs[f[i]])] :
         f \in {g \in [1..n -> S] :
                  /\ \A i, j \in 1..n : i # j => g[i] # g[j]
                  /\ \A i, j \in 1..n :
                       i < j => rs[g[i]].created_at >= rs[g[j]].created_at}}

\* ------------------------------------------------------------- requests
Idle == [kind |-> "none"]
NoLoc == [none |-> TRUE]
NoResp == [status |-> 0]

\* Field values of the requests: names, a blank string, an isbn, and the
\* same isbn with a leading space.
Title1 == JStr(<<"a">>)
Title2 == JStr(<<"b">>)
Blank  == JStr(<<" ">>)
Isbn1  == JStr(<<"x">>)
Isbn1Padded == JStr(<<" ", "x">>)
Title3Padded == JStr(<<" ", "c", " ">>)

\* The database file outlives the server (sqlite:///book_reviews.db): at
\* start-up the tables are empty or hold the rows of an earlier run, while
\* every cache entry of that run has expired.
Row1 == [id |-> 1, title |-> Title1, author |-> Title1, isbn |-> JNull,
         publication_year |-> JNull, created_at |-> 0]

InitialBooks == {<<>>, <<Row1>>}

\* Rows of an earlier run in both tables: two books, a review of each.
Row2 == [id |-> 2, title |-> Title2, author |-> Title2, isbn |-> JNull,
         publication_year |-> JNull, created_at |-> 0]

Review1 == [id |-> 1, book_id |-> 1, reviewer_name |-> Title1, rating |-> 5,
            review_text |-> JNull, created_at |-> 0]

Review2 == [id |-> 2, book_id |-> 2, reviewer_name |-> Title1, rating |-> 5,
            review_text |-> JNull, created_at |-> 0]

Init ==
  /\ books \in InitialBooks
  /\ reviews = <<>>
  /\ cache = [k \in Keys |-> NoEntry]
  /\ now = 0
  /\ pc = [p \in Procs |-> "idle"]
  /\ req = [p \in Procs |-> Idle]
  /\ loc = [p \in Procs |-> NoLoc]
  /\ resp = [p \in Procs |-> NoResp]
  /\ trace = [p \in Procs |-> <<>>]
  /\ nops = 0
  /\ nfaults = 0
  /\ acked = [k \in Keys |-> {}]
  /\ fresh = {}
  /\ wiped = {}

\* Start-up on a database that holds books and reviews.
InitListing ==
  /\ books = <<Row1, Row2>>
  /\ reviews = <<Review1, Review2>>
  /\ cache = [k \in Keys |-> NoEntry]
  /\ now = 0
  /\ pc = [p \in Procs |-> "idle"]
  /\ req = [p \in Procs |-> Idle]
  /\ loc = [p \in Procs |-> NoLoc]
  /\ resp = [p \in Procs |-> NoResp]
  /\ trace = [p \in Procs |-> <<>>]
  /\ nops = 0
  /\ nfaults = 0
  /\ acked = [k \in Keys |-> {}]
  /\ fresh = {}
  /\ wiped = {}

\* The outcomes a call to the store or to the cache can have: it returns
\* (TRUE) or raises (FALSE).
Outcomes == IF nfaults < MaxFaults THEN BOOLEAN ELSE {TRUE}

\* Request p makes the call `name` with outcome ok.
Call(p, name, ok) ==
  /\ trace' = [trace EXCEPT ![p] = Append(@, <<name, ok>>)]
  /\ nfaults' = IF ok THEN nfaults ELSE nfaults + 1

Made(p, name) == \E i \in 1..Len(trace[p]) : trace[p][i][1] = name
Failed(p, name) == \E i \in 1..Len(trace[p]) : trace[p][i] = <<name, FALSE>>
CacheCalls == {"ttl", "get", "setex", "delete"}
StoreCalls == {"get_book", "query_isbn", "select", "commit"}
CacheFailed(p) == \E n \in CacheCalls : Failed(p, n)
StoreFailed(p) == \E n \in StoreCalls : Failed(p, n)

\* The cache key each handler uses.
GetBooksKey == BOOKS_CACHE_KEY                 \* get_books
AddBookKey == BOOKS_CACHE_KEY                  \* add_book
\* (faulty variant: the reviews of a book are cached under the book's key)
GetReviewsKey_book(book_id) == BookKey(book_id)

GetReviewsKey(book_id) == ReviewsKey(book_id)  \* get_book_reviews
\* (faulty variant: the review write invalidates the book list)
AddReviewKey_Books(book_id) == BOOKS_CACHE_KEY

AddReviewKey(book_id) == ReviewsKey(book_id)   \* add_book_review

KeyOf(r) ==
  CASE r.kind = "GET /books" -> GetBooksKey
    [] r.kind = "POST /books" -> AddBookKey
    [] r.kind = "GET /reviews" -> GetReviewsKey(r.book_id)
    [] r.kind = "POST /reviews" -> AddReviewKey(r.book_id)

\* A request arrives and a free thread takes it.
Begin(p, r, label) ==
  /\ pc[p] = "idle"
  /\ nops < MaxOps
  /\ nops' = nops + 1
  /\ req' = [req EXCEPT ![p] = r]
  /\ pc' = [pc EXCEPT ![p] = label]
  /\ trace' = [trace EXCEPT ![p] = <<>>]
  /\ loc' = [loc EXCEPT ![p] = NoLoc]
  /\ resp' = [resp EXCEPT ![p] = NoResp]

\* The handler returns r: the thread is free again, and its last request
\* and response stay visible until it takes the next request.
Respond(p, r) ==
  /\ resp' = [resp EXCEPT ![p] = r]
  /\ pc' = [pc EXCEPT ![p] = "idle"]

Goto(p, label) ==
  /\ pc' = [pc EXCEPT ![p] = label]
  /\ UNCHANGED resp

Completed(p) == pc[p] = "idle" /\ resp[p] # NoResp

\* raise BadRequest / NotFound / InternalServerError, through the error
\* handlers (the 500 handler rolls the session back: nothing was committed)
bad_request == [status |-> 400]
not_found == [status |-> 404]
internal_error == [status |-> 500]

\* -------------------------------------------------- cache helper functions
\* get_from_cache, the try block: redis_client.get(key) and json.loads; an
\* absent entry, an entry that does not parse and a raising client all give
\* None.
\* (faulty variant: an entry is never found)
get_from_cache_always_miss(c, key, ok) == Miss

\* (faulty variant: an entry holding an empty list counts as a miss)
get_from_cache_empty_is_miss(c, key, ok) ==
  IF ok /\ c[key] # NoEntry /\ c[key].v # <<>> THEN Loads(c[key]) ELSE Miss

get_from_cache(c, key, ok) ==
  IF ok /\ c[key] # NoEntry THEN Loads(c[key]) ELSE Miss

\* set_cache(key, data): setex with the default expiry; an error is logged.
\* (faulty variant: nothing is stored)
set_cache_skip(c, key, data, ok) == c

set_cache(c, key, data, ok) ==
  IF ok THEN setex(c, key, expire_time, Dumps(data)) ELSE c

\* invalidate_cache(key): delete; an error is logged.
\* (faulty variant: nothing is deleted)
invalidate_cache_noop(c, key, ok) == c

invalidate_cache(c, key, ok) == IF ok THEN delete(c, key) ELSE c

\* Whether a raising client call reaches the handler: redis_client.ttl is
\* called outside get_from_cache's try; get, setex and delete are inside a
\* try whose `except Exception` only logs.
ttl_raises(ok) == ~ok
get_raises(ok) == FALSE
\* (faulty variant: set_cache without its try)
set_cache_raises_propagates(ok) == ~ok

set_cache_raises(ok) == FALSE

\* (faulty variant: invalidate_cache without its try)
invalidate_cache_raises_propagates(ok) == ~ok

invalidate_cache_raises(ok) == FALSE

\* get_from_cache, first statement: redis_client.ttl(BOOKS_CACHE_KEY), made
\* outside the try; when it raises, the exception reaches the handler's
\* `except Exception`, which answers 500.
get_from_cache_ttl(p) ==
  /\ pc[p] = "ttl"
  /\ \E ok \in Outcomes :
       /\ Call(p, "ttl", ok)
       /\ IF ttl_raises(ok) THEN Respond(p, internal_error) ELSE Goto(p, "get")
  /\ UNCHANGED <<books, reviews, cache, now, req, loc, nops, acked, fresh, wiped>>

\* The body of a 200 response of the two reads.
ReadResponse(r, data, source) ==
  IF r.kind = "GET /books"
    THEN [status |-> 200, books |-> data, source |-> source]
    ELSE [status |-> 200, book_id |-> r.book_id,
          book_title |-> TitleOf(books, r.book_id), reviews |-> data,
          source |-> source]

\* cached = get_from_cache(key); if cached is not None: return it with
\* source "cache"; otherwise go on to the store.
get_from_cache_get(p) ==
  /\ pc[p] = "get"
  /\ \E ok \in Outcomes :
       /\ Call(p, "get", ok)
       /\ LET cached == get_from_cache(cache, KeyOf(req[p]), ok)
          IN  IF get_raises(ok) THEN Respond(p, internal_error)
              ELSE IF cached.hit
                THEN Respond(p, ReadResponse(req[p], cached.v, "cache"))
              ELSE Goto(p, "load")
  /\ UNCHANGED <<books, reviews, cache, now, req, loc, nops, acked, fresh, wiped>>

\* ------------------------------------------------------------ GET /books
get_books(p) ==
  /\ Begin(p, [kind |-> "GET /books", start |-> now, rows |-> Len(books),
               fresh |-> BOOKS_CACHE_KEY \in fresh,
               wiped |-> BOOKS_CACHE_KEY \in wiped], "ttl")
  /\ fresh' = fresh \ {BOOKS_CACHE_KEY}
  /\ wiped' = wiped \ {BOOKS_CACHE_KEY}
  /\ UNCHANGED <<books, reviews, cache, now, nfaults, acked>>

\* Cache miss: books = db.session.execute(db.select(Book)).scalars().all()
\* (faulty variant: the select takes the rows it returns out of the table)
get_books_select_consuming(p) ==
  /\ pc[p] = "load"
  /\ req[p].kind = "GET /books"
  /\ \E ok \in Outcomes :
       /\ Call(p, "select", ok)
       /\ IF ok
            THEN /\ loc' = [loc EXCEPT ![p] = [data |-> ListBooks(books)]]
                 /\ books' = <<>>
                 /\ Goto(p, "setex")
            ELSE /\ Respond(p, internal_error)
                 /\ UNCHANGED <<loc, books>>
  /\ UNCHANGED <<reviews, cache, now, req, nops, acked, fresh, wiped>>

get_books_select(p) ==
  /\ pc[p] = "load"
  /\ req[p].kind = "GET /books"
  /\ \E ok \in Outcomes :
       /\ Call(p, "select", ok)
       /\ IF ok
            THEN /\ loc' = [loc EXCEPT ![p] = [data |-> ListBooks(books)]]
                 /\ Goto(p, "setex")
            ELSE /\ Respond(p, internal_error)
                 /\ UNCHANGED loc
  /\ UNCHANGED <<books, reviews, cache, now, req, nops, acked, fresh, wiped>>

\* set_cache(BOOKS_CACHE_KEY, books_data); return the books, "database"
get_books_set_cache(p) ==
  /\ pc[p] = "setex"
  /\ req[p].kind = "GET /books"
  /\ \E ok \in Outcomes :
       /\ Call(p, "setex", ok)
       /\ cache' = set_cache(cache, GetBooksKey, loc[p].data, ok)
       /\ IF set_cache_raises(ok) THEN Respond(p, internal_error)
          ELSE Respond(p, ReadResponse(req[p], loc[p].data, "database"))
  /\ UNCHANGED <<books, reviews, now, req, loc, nops, acked, fresh, wiped>>

\* ------------------------------------------- GET /books/<book_id>/reviews
get_book_reviews(p, b) ==
  /\ Begin(p, [kind |-> "GET /reviews", book_id |-> b, start |-> now,
               rows |-> Len(reviews), fresh |-> ReviewsKey(b) \in fresh,
               wiped |-> ReviewsKey(b) \in wiped], "get_book")
  /\ fresh' = fresh \ {ReviewsKey(b)}
  /\ wiped' = wiped \ {ReviewsKey(b)}
  /\ UNCHANGED <<books, reviews, cache, now, nfaults, acked>>

\* book = db.session.get(Book, book_id); if not book: raise NotFound
\* (faulty variant: the read goes on to the cache without the NotFound test)
get_book_reviews_get_book_unchecked(p) ==
  /\ pc[p] = "get_book"
  /\ req[p].kind = "GET /reviews"
  /\ \E ok \in Outcomes :
       /\ Call(p, "get_book", ok)
       /\ IF ~ok THEN Respond(p, internal_error) ELSE Goto(p, "ttl")
  /\ UNCHANGED <<books, reviews, cache, now, req, loc, nops, acked, fresh,
                 wiped>>

get_book_reviews_get_book(p) ==
  /\ pc[p] = "get_book"
  /\ req[p].kind = "GET /reviews"
  /\ \E ok \in Outcomes :
       /\ Call(p, "get_book", ok)
       /\ IF ~ok THEN Respond(p, internal_error)
          ELSE IF ~BookExists(books, req[p].book_id) THEN Respond(p, not_found)
          ELSE Goto(p, "ttl")
  /\ UNCHANGED <<books, reviews, cache, now, req, loc, nops, acked, fresh, wiped>>

\* Cache miss: Review.query.filter_by(book_id=book_id)
\*               .order_by(Review.created_at.desc()).all()
get_book_reviews_select(p) ==
  /\ pc[p] = "load"
  /\ req[p].kind = "GET /reviews"
  /\ \E ok \in Outcomes :
       /\ Call(p, "select", ok)
       /\ IF ok
            THEN /\ \E data \in ListReviews(reviews, req[p].book_id) :
                      loc' = [loc EXCEPT ![p] = [data |-> data]]
                 /\ Goto(p, "setex")
            ELSE /\ Respond(p, internal_error)
                 /\ UNCHANGED loc
  /\ UNCHANGED <<books, reviews, cache, now, req, nops, acked, fresh, wiped>>

\* set_cache(cache_key, reviews_data); return the reviews, "database"
get_book_reviews_set_cache(p) ==
  /\ pc[p] = "setex"
  /\ req[p].kind = "GET /reviews"
  /\ \E ok \in Outcomes :
       /\ Call(p, "setex", ok)
       /\ cache' = set_cache(cache, GetReviewsKey(req[p].book_id),
                            loc[p].data, ok)
       /\ IF set_cache_raises(ok) THEN Respond(p, internal_error)
          ELSE Respond(p, ReadResponse(req[p], loc[p].data, "database"))
  /\ UNCHANGED <<books, reviews, now, req, loc, nops, acked, fresh, wiped>>

\* ----------------------------------------------------------- int(value)
DigitVal(c) ==
  CASE c = "0" -> 0 [] c = "1" -> 1 [] c = "2" -> 2 [] c = "3" -> 3
    [] c = "4" -> 4 [] c = "5" -> 5 [] c = "6" -> 6 [] c = "7" -> 7
    [] c = "8" -> 8 [] c = "9" -> 9
IsDigit(c) == c \in {"0", "1", "2", "3", "4", "5", "6", "7", "8", "9"}

RECURSIVE DigitsVal(_)
DigitsVal(s) ==
  IF s = <<>> THEN 0
  ELSE 10 * DigitsVal(SubSeq(s, 1, Len(s) - 1)) + DigitVal(s[Len(s)])

\* int(x) of a float: the fraction is dropped, towards zero.
Trunc(tenths) ==
  IF tenths >= 0 THEN tenths \div 10 ELSE 0 - ((0 - tenths) \div 10)

\* int(j): an int is itself; a float is truncated; a string is stripped,
\* then an optional sign and decimal digits; anything else raises
\* ValueError (a string) or TypeError (None).
ToInt(j) ==
  IF j.t = "int" THEN [ok |-> TRUE, v |-> j.v]
  ELSE IF j.t = "float" THEN [ok |-> TRUE, v |-> Trunc(j.v)]
  ELSE IF j.t = "null" THEN [ok |-> FALSE, err |-> "TypeError"]
  ELSE LET s == Strip(j.v)
           signed == s # <<>> /\ Head(s) \in {"-", "+"}
           d == IF signed THEN Tail(s) ELSE s
       IN  IF d # <<>> /\ \A i \in 1..Len(d) : IsDigit(d[i])
             THEN [ok |-> TRUE,
                   v |-> IF signed /\ Head(s) = "-" THEN 0 - DigitsVal(d)
                                                    ELSE DigitsVal(d)]
             ELSE [ok |-> FALSE, err |-> "ValueError"]

\* ----------------------------------------------------------- POST /books
\* add_book, from `if not data` to the publication year: 200 when the
\* fields are accepted (with the publication_year as stored), 400 on
\* BadRequest, and 500 when a field that is not a string is stripped
\* (AttributeError).
RequiredField(data, field) ==
  IF field \notin DOMAIN data THEN 400
  ELSE IF data[field].t # "str" THEN 500
  ELSE IF Strip(data[field].v) = <<>> THEN 400
  ELSE 200

PublicationYear(data) ==
  IF "publication_year" \in DOMAIN data /\ Truthy(data.publication_year)
    THEN LET year == ToInt(data.publication_year)
         IN  IF ~year.ok THEN [status |-> 400]
             ELSE IF year.v < 0 \/ year.v > CurrentYear + 1
               THEN [status |-> 400]
             ELSE [status |-> 200, year |-> JInt(year.v)]
    ELSE [status |-> 200, year |-> Get(data, "publication_year", JNull)]

CheckBook(data) ==
  IF DOMAIN data = {} THEN 400
  ELSE IF RequiredField(data, "title") # 200 THEN RequiredField(data, "title")
  ELSE IF RequiredField(data, "author") # 200
    THEN RequiredField(data, "author")
  ELSE PublicationYear(data).status

\* x.strip() or None
StripOrNone(s) == IF Strip(s) = <<>> THEN JNull ELSE JStr(Strip(s))

\* Book(title=..., author=..., isbn=..., publication_year=...)
\* (faulty variant: the values are stored as submitted)
NewBook_untrimmed(data) ==
  [title |-> data.title,
   author |-> data.author,
   isbn |-> Get(data, "isbn", JNull),
   publication_year |-> PublicationYear(data).year]

NewBook(data) ==
  [title |-> JStr(Strip(data.title.v)),
   author |-> JStr(Strip(data.author.v)),
   isbn |-> StripOrNone(Get(data, "isbn", JStr(<<>>)).v),
   publication_year |-> PublicationYear(data).year]

add_book(p, data) ==
  /\ Begin(p, [kind |-> "POST /books", data |-> data, start |-> now],
           "validate")
  /\ UNCHANGED <<books, reviews, cache, now, nfaults, acked, fresh, wiped>>

\* Validation, the duplicate-ISBN query when an isbn is given, and the
\* construction of the Book object.
\* (faulty variant: books:all is invalidated before the body is validated)
add_book_validate_after_invalidation(p) ==
  /\ pc[p] = "validate"
  /\ req[p].kind = "POST /books"
  /\ cache' = delete(cache, AddBookKey)
  /\ LET data == req[p].data
         build ==
           IF Get(data, "isbn", JStr(<<>>)).t # "str"
             THEN Respond(p, internal_error) /\ UNCHANGED loc
             ELSE /\ loc' = [loc EXCEPT ![p] = [book |-> NewBook(data)]]
                  /\ Goto(p, "commit")
     IN  IF CheckBook(data) # 200
           THEN /\ Respond(p, [status |-> CheckBook(data)])
                /\ UNCHANGED <<loc, trace, nfaults>>
         ELSE IF Truthy(Get(data, "isbn", JNull))
           THEN \E ok \in Outcomes :
                  /\ Call(p, "query_isbn", ok)
                  /\ IF ~ok THEN Respond(p, internal_error) /\ UNCHANGED loc
                     ELSE IF IsbnUsed(books, data.isbn)
                       THEN Respond(p, bad_request) /\ UNCHANGED loc
                     ELSE build
         ELSE build /\ UNCHANGED <<trace, nfaults>>
  /\ UNCHANGED <<books, reviews, now, req, nops, acked, fresh, wiped>>

add_book_validate(p) ==
  /\ pc[p] = "validate"
  /\ req[p].kind = "POST /books"
  /\ LET data == req[p].data
         build ==
           IF Get(data, "isbn", JStr(<<>>)).t # "str"
             THEN Respond(p, internal_error) /\ UNCHANGED loc
             ELSE /\ loc' = [loc EXCEPT ![p] = [book |-> NewBook(data)]]
                  /\ Goto(p, "commit")
     IN  IF CheckBook(data) # 200
           THEN /\ Respond(p, [status |-> CheckBook(data)])
                /\ UNCHANGED <<loc, trace, nfaults>>
         ELSE IF Truthy(Get(data, "isbn", JNull))
           THEN \E ok \in Outcomes :
                  /\ Call(p, "query_isbn", ok)
                  /\ IF ~ok THEN Respond(p, internal_error) /\ UNCHANGED loc
                     ELSE IF IsbnUsed(books, data.isbn)
                       THEN Respond(p, bad_request) /\ UNCHANGED loc
                     ELSE build
         ELSE build /\ UNCHANGED <<trace, nfaults>>
  /\ UNCHANGED <<books, reviews, cache, now, req, nops, acked, fresh, wiped>>

\* The id the store gives to the next row of a table.
\* (faulty variant: the id of the last row is given again)
NextId_reused(table) == IF Len(table) = 0 THEN 1 ELSE Len(table)

NextId(table) == Len(table) + 1

\* The UNIQUE constraint on books.isbn: NULLs do not conflict.
\* (faulty variant: the column has no constraint)
UniqueIsbn_unenforced(bs, isbn) == TRUE

UniqueIsbn(bs, isbn) == isbn = JNull \/ ~IsbnUsed(bs, isbn)

\* db.session.add(book); db.session.commit(): the row gets its id and its
\* created_at; a failing store or a violated constraint raises, the
\* handler rolls back and answers 500.
\* (faulty variant: 201 is returned right after the commit)
add_book_commit_then_return(p) ==
  /\ pc[p] = "commit"
  /\ req[p].kind = "POST /books"
  /\ Call(p, "commit", TRUE)
  /\ UniqueIsbn(books, loc[p].book.isbn)
  /\ LET row == [id |-> NextId(books),
                 title |-> loc[p].book.title,
                 author |-> loc[p].book.author,
                 isbn |-> loc[p].book.isbn,
                 publication_year |-> loc[p].book.publication_year,
                 created_at |-> now]
     IN  /\ books' = Append(books, row)
         /\ loc' = [loc EXCEPT ![p] = [book |-> row]]
         /\ Respond(p, [status |-> 201, book |-> Book_to_dict(row)])
  /\ UNCHANGED <<reviews, cache, now, req, nops, acked, fresh, wiped>>

\* (faulty variant: a violated constraint is swallowed and the handler
\* goes on as if the row had been inserted)
add_book_commit_ignore_conflict(p) ==
  /\ pc[p] = "commit"
  /\ req[p].kind = "POST /books"
  /\ \E ok \in Outcomes :
       /\ Call(p, "commit", ok)
       /\ IF ok
            THEN LET row == [id |-> NextId(books),
                             title |-> loc[p].book.title,
                             author |-> loc[p].book.author,
                             isbn |-> loc[p].book.isbn,
                             publication_year |-> loc[p].book.publication_year,
                             created_at |-> now]
                 IN  /\ books' = IF UniqueIsbn(books, loc[p].book.isbn)
                                   THEN Append(books, row) ELSE books
                     /\ loc' = [loc EXCEPT ![p] = [book |-> row]]
                     /\ Goto(p, "delete")
            ELSE /\ Respond(p, internal_error)
                 /\ UNCHANGED <<books, loc>>
  /\ UNCHANGED <<reviews, cache, now, req, nops, acked, fresh, wiped>>

add_book_commit(p) ==
  /\ pc[p] = "commit"
  /\ req[p].kind = "POST /books"
  /\ \E ok \in Outcomes :
       /\ Call(p, "commit", ok)
       /\ IF ok /\ UniqueIsbn(books, loc[p].book.isbn)
            THEN LET row == [id |-> NextId(books),
                             title |-> loc[p].book.title,
                             author |-> loc[p].book.author,
                             isbn |-> loc[p].book.isbn,
                             publication_year |-> loc[p].book.publication_year,
                             created_at |-> now]
                 IN  /\ books' = Append(books, row)
                     /\ loc' = [loc EXCEPT ![p] = [book |-> row]]
                     /\ Goto(p, "delete")
            ELSE /\ Respond(p, internal_error)
                 /\ UNCHANGED <<books, loc>>
  /\ UNCHANGED <<reviews, cache, now, req, nops, acked, fresh, wiped>>

\* A 201 write whose invalidation reached the cache acknowledges its record.
Acknowledge(key, id, ok) ==
  /\ acked' = IF ok THEN [acked EXCEPT ![key] = @ \cup {id}] ELSE acked
  /\ fresh' = IF ok THEN fresh \cup {key} ELSE fresh

\* invalidate_cache(BOOKS_CACHE_KEY); return 201 with the book
add_book_invalidate(p) ==
  /\ pc[p] = "delete"
  /\ req[p].kind = "POST /books"
  /\ \E ok \in Outcomes :
       /\ Call(p, "delete", ok)
       /\ cache' = invalidate_cache(cache, AddBookKey, ok)
       /\ Acknowledge(BOOKS_CACHE_KEY, loc[p].book.id, ok)
       /\ IF invalidate_cache_raises(ok) THEN Respond(p, internal_error)
          ELSE Respond(p, [status |-> 201, book |-> Book_to_dict(loc[p].book)])
  /\ UNCHANGED <<books, reviews, now, req, loc, nops, wiped>>

\* ------------------------------------------ POST /books/<book_id>/reviews
\* add_book_review, from `if not data` to the construction of the Review:
\* 200 when the body is accepted, 400 on BadRequest, 500 when a field that
\* is not a string is stripped (AttributeError).
CheckReview(data) ==
  IF DOMAIN data = {} THEN 400
  ELSE IF "reviewer_name" \notin DOMAIN data THEN 400
  ELSE IF "rating" \notin DOMAIN data THEN 400
  ELSE IF data.reviewer_name.t # "str" THEN 500
  ELSE IF Strip(data.reviewer_name.v) = <<>> THEN 400
  ELSE IF ~ToInt(data.rating).ok THEN 400
  ELSE IF ToInt(data.rating).v < 1 \/ ToInt(data.rating).v > 5 THEN 400
  ELSE IF Get(data, "review_text", JStr(<<>>)).t # "str" THEN 500
  ELSE 200

\* Review(book_id=..., reviewer_name=..., rating=..., review_text=...)
NewReview(book_id, data) ==
  [book_id |-> book_id,
   reviewer_name |-> JStr(Strip(data.reviewer_name.v)),
   rating |-> ToInt(data.rating).v,
   review_text |-> StripOrNone(Get(data, "review_text", JStr(<<>>)).v)]

add_book_review(p, b, data) ==
  /\ Begin(p, [kind |-> "POST /reviews", book_id |-> b, data |-> data,
               start |-> now], "validate")
  /\ UNCHANGED <<books, reviews, cache, now, nfaults, acked, fresh, wiped>>

\* book = db.session.get(Book, book_id), NotFound when there is none; then
\* the validation of the body and the construction of the Review object.
\* (faulty variant: the body is validated before the book is looked up)
add_book_review_validate_body_first(p) ==
  /\ pc[p] = "validate"
  /\ req[p].kind = "POST /reviews"
  /\ \E ok \in Outcomes :
       /\ Call(p, "get_book", ok)
       /\ IF CheckReview(req[p].data) # 200
            THEN /\ Respond(p, [status |-> CheckReview(req[p].data)])
                 /\ UNCHANGED loc
          ELSE IF ~ok THEN Respond(p, internal_error) /\ UNCHANGED loc
          ELSE IF ~BookExists(books, req[p].book_id)
            THEN Respond(p, not_found) /\ UNCHANGED loc
          ELSE /\ loc' = [loc EXCEPT ![p] =
                            [review |-> NewReview(req[p].book_id, req[p].data)]]
               /\ Goto(p, "commit")
  /\ UNCHANGED <<books, reviews, cache, now, req, nops, acked, fresh, wiped>>

add_book_review_validate(p) ==
  /\ pc[p] = "validate"
  /\ req[p].kind = "POST /reviews"
  /\ \E ok \in Outcomes :
       /\ Call(p, "get_book", ok)
       /\ IF ~ok THEN Respond(p, internal_error) /\ UNCHANGED loc
          ELSE IF ~BookExists(books, req[p].book_id)
            THEN Respond(p, not_found) /\ UNCHANGED loc
          ELSE IF CheckReview(req[p].data) # 200
            THEN /\ Respond(p, [status |-> CheckReview(req[p].data)])
                 /\ UNCHANGED loc
          ELSE /\ loc' = [loc EXCEPT ![p] =
                            [review |-> NewReview(req[p].book_id, req[p].data)]]
               /\ Goto(p, "commit")
  /\ UNCHANGED <<books, reviews, cache, now, req, nops, acked, fresh, wiped>>

\* The FOREIGN KEY constraint on reviews.book_id.
ForeignKey(bs, book_id) == BookExists(bs, book_id)

\* db.session.add(review); db.session.commit()
\* (faulty variant: a commit that raises is swallowed and the handler goes
\* on to the invalidation)
add_book_review_commit_swallowed(p) ==
  /\ pc[p] = "commit"
  /\ req[p].kind = "POST /reviews"
  /\ \E ok \in Outcomes :
       /\ Call(p, "commit", ok)
       /\ LET row == [id |-> NextId(reviews),
                      book_id |-> loc[p].review.book_id,
                      reviewer_name |-> loc[p].review.reviewer_name,
                      rating |-> loc[p].review.rating,
                      review_text |-> loc[p].review.review_text,
                      created_at |-> now]
          IN  /\ reviews' = IF ok /\ ForeignKey(books, row.book_id)
                              THEN Append(reviews, row) ELSE reviews
              /\ loc' = [loc EXCEPT ![p] = [review |-> row]]
              /\ Goto(p, "delete")
  /\ UNCHANGED <<books, cache, now, req, nops, acked, fresh, wiped>>

add_book_review_commit(p) ==
  /\ pc[p] = "commit"
  /\ req[p].kind = "POST /reviews"
  /\ \E ok \in Outcomes :
       /\ Call(p, "commit", ok)
       /\ IF ok /\ ForeignKey(books, loc[p].review.book_id)
            THEN LET row == [id |-> NextId(reviews),
                             book_id |-> loc[p].review.book_id,
                             reviewer_name |-> loc[p].review.reviewer_name,
                             rating |-> loc[p].review.rating,
                             review_text |-> loc[p].review.review_text,
                             created_at |-> now]
                 IN  /\ reviews' = Append(reviews, row)
                     /\ loc' = [loc EXCEPT ![p] = [review |-> row]]
                     /\ Goto(p, "delete")
            ELSE /\ Respond(p, internal_error)
                 /\ UNCHANGED <<reviews, loc>>
  /\ UNCHANGED <<books, cache, now, req, nops, acked, fresh, wiped>>

\* cache_key = f"{REVIEWS_CACHE_KEY_PREFIX}{book_id}";
\* invalidate_cache(cache_key); return 201 with the review
add_book_review_invalidate(p) ==
  /\ pc[p] = "delete"
  /\ req[p].kind = "POST /reviews"
  /\ \E ok \in Outcomes :
       /\ Call(p, "delete", ok)
       /\ cache' = invalidate_cache(cache, AddReviewKey(req[p].book_id), ok)
       /\ Acknowledge(ReviewsKey(req[p].book_id), loc[p].review.id, ok)
       /\ IF invalidate_cache_raises(ok) THEN Respond(p, internal_error)
          ELSE Respond(p, [status |-> 201,
                           review |-> Review_to_dict(loc[p].review)])
  /\ UNCHANGED <<books, reviews, now, req, loc, nops, wiped>>

\* ------------------------------------------------------------ GET /health
health_check(p) ==
  /\ Begin(p, [kind |-> "GET /health", start |-> now], "select_1")
  /\ UNCHANGED <<books, reviews, cache, now, nfaults, acked, fresh, wiped>>

\* db.session.execute(text('SELECT 1')): when it raises, the handler's
\* `except Exception` answers 500 with status "unhealthy".
health_check_select_1(p) ==
  /\ pc[p] = "select_1"
  /\ \E ok \in Outcomes :
       /\ Call(p, "select_1", ok)
       /\ IF ok THEN Goto(p, "ping")
          ELSE Respond(p, [status |-> 500, health |-> "unhealthy"])
  /\ UNCHANGED <<books, reviews, cache, now, req, loc, nops, acked, fresh,
                 wiped>>

\* redis_client.ping() in its own try: "connected", or "disconnected" when
\* it raises; the answer is 200 with status "healthy" either way.
health_check_ping(p) ==
  /\ pc[p] = "ping"
  /\ \E ok \in Outcomes :
       /\ Call(p, "ping", ok)
       /\ Respond(p, [status |-> 200, health |-> "healthy",
                      database |-> "connected",
                      cache |-> IF ok THEN "connected" ELSE "disconnected"])
  /\ UNCHANGED <<books, reviews, cache, now, req, loc, nops, acked, fresh,
                 wiped>>

\* -------------------------------------------------------------- the cache
\* The Redis server is wiped (FLUSHALL, a restart without persistence, the
\* test fixture's redis_client.data.clear()): every entry is gone.
Wipe ==
  /\ cache' = [k \in Keys |-> NoEntry]
  /\ wiped' = Keys
  /\ UNCHANGED <<books, reviews, now, pc, req, loc, resp, trace, nops,
                 nfaults, acked, fresh>>

\* What another client of the Redis server left under a key: bytes that
\* json.loads rejects.
Garbled == [t |-> "raw", v |-> <<[raw |-> "{"]>>]

\* Between two requests another client of the server at REDIS_URL sets a
\* key to a value that is not JSON.
GarbleEntry(k) ==
  /\ \A p \in Procs : pc[p] = "idle"
  /\ cache' = [cache EXCEPT ![k] = [t |-> Garbled.t, v |-> Garbled.v,
                                    exp |-> now + expire_time]]
  /\ UNCHANGED <<books, reviews, now, pc, req, loc, resp, trace, nops,
                 nfaults, acked, fresh, wiped>>

\* ------------------------------------------------------------- the store
\* The database is recreated between two requests (db.drop_all();
\* db.create_all() of the test fixture, which clears the cache only when it
\* is the in-process mock): the tables are empty, the Redis entries stay.
ResetStore ==
  /\ \A p \in Procs : pc[p] = "idle"
  /\ books' = <<>>
  /\ reviews' = <<>>
  /\ acked' = [k \in Keys |-> {}]
  /\ UNCHANGED <<cache, now, pc, req, loc, resp, trace, nops, nfaults,
                 fresh, wiped>>

\* ------------------------------------------------------------------ time
\* Time passes; entries whose expiry is reached are gone.
Tick ==
  /\ now + Quantum <= MaxTime
  /\ now' = now + Quantum
  /\ cache' = Expire(cache, now + Quantum)
  /\ UNCHANGED <<books, reviews, pc, req, loc, resp, trace, nops, nfaults,
                 acked, fresh, wiped>>

\* ---------------------------------------------------------------- inputs
\* Bodies of POST /books: accepted ones, without and with an isbn, and one
\* with a blank title.
BookBodies ==
  { [title |-> Title1, author |-> Title1],
    [title |-> Title1, author |-> Title1, isbn |-> Isbn1],
    [title |-> Blank, author |-> Title1] }

\* Bodies of POST /books/<id>/reviews: accepted ones and one whose rating
\* is out of range.
ReviewBodies ==
  { [reviewer_name |-> Title1, rating |-> JInt(5)],
    [reviewer_name |-> Title1, rating |-> JInt(6)] }

\* Bodies of POST /books/<id>/reviews with every kind of rating: integers
\* in and out of 1..5, numeric and non-numeric strings, floats, null.
Ratings ==
  { JInt(1), JInt(5), JInt(0), JInt(6), JInt(-1),
    JStr(<<"a", "b", "c">>), JStr(<<"5">>), JStr(<<"3", ".", "7">>),
    JFloat(37), JFloat(5), JFloat(59), JNull }

RatingBodies == {[reviewer_name |-> Title1, rating |-> r] : r \in Ratings}

\* Bodies of POST /books/<id>/reviews of every shape: accepted, empty,
\* without a rating, with a blank or non-string name, with a bad rating.
AnyReviewBodies ==
  { [reviewer_name |-> Title1, rating |-> JInt(5)],
    <<>>,
    [reviewer_name |-> Title1],
    [reviewer_name |-> Blank, rating |-> JInt(5)],
    [reviewer_name |-> JInt(1), rating |-> JInt(5)],
    [reviewer_name |-> Title1, rating |-> JInt(6)] }

\* Bodies of POST /books of every shape: accepted ones without an isbn,
\* with an isbn under two titles, with the isbn padded or blank and with a
\* publication year; and rejected ones: empty, title missing or blank,
\* publication year out of range or not a number.
IsbnBodies ==
  { [title |-> Title1, author |-> Title1],
    [title |-> Title1, author |-> Title1, isbn |-> Isbn1],
    [title |-> Title2, author |-> Title2, isbn |-> Isbn1],
    [title |-> Title1, author |-> Title1, isbn |-> Isbn1Padded],
    [title |-> Title1, author |-> Title1, isbn |-> Blank],
    [title |-> Title1, author |-> Title1, publication_year |-> JInt(2000)],
    [title |-> Title3Padded, author |-> Title3Padded, isbn |-> Isbn1Padded,
     publication_year |-> JInt(2000)],
    <<>>,
    [author |-> Title1],
    [title |-> Blank, author |-> Title1],
    [title |-> Title1, author |-> Title1, publication_year |-> JInt(3000)],
    [title |-> Title1, author |-> Title1,
     publication_year |-> JStr(<<"a">>)] }

\* Bodies of POST /books that can conflict on the isbn, and one without isbn.
ConflictBodies ==
  { [title |-> Title1, author |-> Title1],
    [title |-> Title1, author |-> Title1, isbn |-> Isbn1],
    [title |-> Title2, author |-> Title2, isbn |-> Isbn1],
    [title |-> Title1, author |-> Title1, isbn |-> Isbn1Padded] }

\* ---------------------------------------------------------- specification
\* The steps of the two book handlers, with the cache reads both reads share.
BooksStep(p) ==
  \/ get_books(p)
  \/ \E data \in BookBodies : add_book(p, data)
  \/ get_from_cache_ttl(p)
  \/ get_from_cache_get(p)
  \/ get_books_select(p)
  \/ get_books_set_cache(p)
  \/ add_book_validate(p)
  \/ add_book_commit(p)
  \/ add_book_invalidate(p)

\* The steps of the two review handlers.
ReviewsStep(p) ==
  \/ \E b \in BookIds : get_book_reviews(p, b)
  \/ \E b \in BookIds, data \in ReviewBodies : add_book_review(p, b, data)
  \/ get_book_reviews_get_book(p)
  \/ get_book_reviews_select(p)
  \/ get_book_reviews_set_cache(p)
  \/ add_book_review_validate(p)
  \/ add_book_review_commit(p)
  \/ add_book_review_invalidate(p)

Step(p) == BooksStep(p) \/ ReviewsStep(p)

\* Requests served by concurrent threads, as time passes.
Next == (\E p \in Procs : Step(p)) \/ Tick

Spec == Init /\ [][Next]_vars

\* Requests served one after another, by one thread, as time passes.
NextSeq == Step(1) \/ Tick

SpecSeq == Init /\ [][NextSeq]_vars

\* Requests served by concurrent threads within one tick of the clock.
NextRace == \E p \in Procs : Step(p)

SpecRace == Init /\ [][NextRace]_vars

\* Book requests served by concurrent threads, as time passes.
NextBooks == (\E p \in Procs : BooksStep(p)) \/ Tick

SpecBooks == Init /\ [][NextBooks]_vars

\* Requests served by concurrent threads while the cache can be wiped.
NextWipe == (\E p \in Procs : Step(p)) \/ Wipe

SpecWipe == Init /\ [][NextWipe]_vars

\* Reviews posted one after another with every kind of rating.
NextRatings ==
  \/ \E b \in BookIds, data \in RatingBodies : add_book_review(1, b, data)
  \/ add_book_review_validate(1)
  \/ add_book_review_commit(1)
  \/ add_book_review_invalidate(1)

SpecRatings == Init /\ [][NextRatings]_vars

\* Review requests served one after another, with bodies of every shape,
\* while the database can be recreated between two requests.
NextReset ==
  \/ \E b \in BookIds : get_book_reviews(1, b)
  \/ get_book_reviews_get_book(1)
  \/ get_from_cache_ttl(1)
  \/ get_from_cache_get(1)
  \/ get_book_reviews_select(1)
  \/ get_book_reviews_set_cache(1)
  \/ \E b \in BookIds, data \in AnyReviewBodies : add_book_review(1, b, data)
  \/ add_book_review_validate(1)
  \/ add_book_review_commit(1)
  \/ add_book_review_invalidate(1)
  \/ ResetStore

SpecReset == Init /\ [][NextReset]_vars

\* Book requests, with bodies of every shape, served one after another.
NextBodies ==
  \/ get_books(1)
  \/ \E data \in IsbnBodies : add_book(1, data)
  \/ get_from_cache_ttl(1)
  \/ get_from_cache_get(1)
  \/ get_books_select(1)
  \/ get_books_set_cache(1)
  \/ add_book_validate(1)
  \/ add_book_commit(1)
  \/ add_book_invalidate(1)

SpecBodies == Init /\ [][NextBodies]_vars

\* POST /books requests that can conflict, served by concurrent threads.
NextIsbn ==
  \E p \in Procs :
    \/ \E data \in ConflictBodies : add_book(p, data)
    \/ add_book_validate(p)
    \/ add_book_commit(p)
    \/ add_book_invalidate(p)

SpecIsbn == Init /\ [][NextIsbn]_vars

\* Review requests served one after another, as time passes, on a
\* database that holds books and reviews.
NextListing ==
  \/ ReviewsStep(1)
  \/ get_from_cache_ttl(1)
  \/ get_from_cache_get(1)
  \/ Tick

SpecListing == InitListing /\ [][NextListing]_vars

\* Books and reviews posted by concurrent threads.
NextWrites ==
  \E p \in Procs :
    \/ \E data \in BookBodies : add_book(p, data)
    \/ add_book_validate(p)
    \/ add_book_commit(p)
    \/ add_book_invalidate(p)
    \/ \E b \in BookIds, data \in ReviewBodies : add_book_review(p, b, data)
    \/ add_book_review_validate(p)
    \/ add_book_review_commit(p)
    \/ add_book_review_invalidate(p)

SpecWrites == Init /\ [][NextWrites]_vars

\* Reads served one after another, on a database that holds books and
\* reviews and a Redis server that another client writes to between them.
NextGarbled ==
  \/ get_books(1)
  \/ \E b \in BookIds : get_book_reviews(1, b)
  \/ get_from_cache_ttl(1)
  \/ get_from_cache_get(1)
  \/ get_books_select(1)
  \/ get_books_set_cache(1)
  \/ get_book_reviews_get_book(1)
  \/ get_book_reviews_select(1)
  \/ get_book_reviews_set_cache(1)
  \/ \E k \in Keys \ BookKeys : GarbleEntry(k)
  \/ Tick

SpecGarbled == InitListing /\ [][NextGarbled]_vars

\* Reads and accepted writes of books and of the reviews of book 1 served
\* by concurrent threads within one tick of the clock; the first thread
\* serves reads only.
NextStale ==
  \E p \in Procs :
    \/ get_books(p)
    \/ p > 1 /\ add_book(p, [title |-> Title1, author |-> Title1])
    \/ get_from_cache_ttl(p)
    \/ get_from_cache_get(p)
    \/ get_books_select(p)
    \/ get_books_set_cache(p)
    \/ add_book_validate(p)
    \/ add_book_commit(p)
    \/ add_book_invalidate(p)
    \/ get_book_reviews(p, 1)
    \/ /\ p > 1
       /\ add_book_review(p, 1, [reviewer_name |-> Title1, rating |-> JInt(5)])
    \/ get_book_reviews_get_book(p)
    \/ get_book_reviews_select(p)
    \/ get_book_reviews_set_cache(p)
    \/ add_book_review_validate(p)
    \/ add_book_review_commit(p)
    \/ add_book_review_invalidate(p)

SpecStale == Init /\ [][NextStale]_vars

\* The first value of the clock at which an entry set at time t is gone.
ExpiresBy(t) == ((t + expire_time + Quantum - 1) \div Quantum) * Quantum

\* A request is short against the clock: time passes between requests.
TickIdle == (\A p \in Procs : pc[p] = "idle") /\ Tick

\* The steps of a request that is being served.
Progress(p) ==
  \/ get_from_cache_ttl(p)
  \/ get_from_cache_get(p)
  \/ get_books_select(p)
  \/ get_books_set_cache(p)
  \/ add_book_validate(p)
  \/ add_book_commit(p)
  \/ add_book_invalidate(p)
  \/ get_book_reviews_get_book(p)
  \/ get_book_reviews_select(p)
  \/ get_book_reviews_set_cache(p)
  \/ add_book_review_validate(p)
  \/ add_book_review_commit(p)
  \/ add_book_review_invalidate(p)

\* Reads at any time and writes that stop early enough for the clock to
\* outlast the entries of their time, served by two concurrent threads, of
\* which the first serves reads only. Every request that is being served
\* goes on, and time goes on.
NextQuiet ==
  \/ \E p \in {1, 2} :
       \/ get_books(p)
       \/ get_book_reviews(p, 1)
       \/ /\ p > 1 /\ ExpiresBy(now) <= MaxTime
          /\ add_book(p, [title |-> Title1, author |-> Title1])
       \/ /\ p > 1 /\ ExpiresBy(now) <= MaxTime
          /\ add_book_review(p, 1, [reviewer_name |-> Title1,
                                    rating |-> JInt(5)])
       \/ Progress(p)
  \/ TickIdle

\* Requests of every endpoint, the health check included, served one
\* after another.
NextHealth ==
  \/ Step(1)
  \/ health_check(1)
  \/ health_check_select_1(1)
  \/ health_check_ping(1)

SpecHealth == Init /\ [][NextHealth]_vars

SpecQuiet ==
  /\ Init
  /\ [][NextQuiet]_vars
  /\ \A p \in Procs : WF_vars(Progress(p))
  /\ WF_vars(TickIdle)

\* ================================================================ claims
IsRead(p) == req[p].kind \in {"GET /books", "GET /reviews"}
IsWrite(p) == req[p].kind \in {"POST /books", "POST /reviews"}
NoCallFailed(p) == \A i \in 1..Len(trace[p]) : trace[p][i][2]
LastCall(t) == t[Len(t)]

\* The collection a 200 read response carries.
DataOf(r) == IF "books" \in DOMAIN r THEN r.books ELSE r.reviews

\* The collections the store can return now for the key of request r.
StoreCollections(r) ==
  IF r.kind \in {"GET /books", "POST /books"}
    THEN {ListBooks(books)} ELSE ListReviews(reviews, r.book_id)

\* How many rows of a listing have the id.
Count(data, id) == Cardinality({i \in 1..Len(data) : data[i].id = id})

\* C1. Cache hit: when the cache get of a read succeeds on a key that holds
\* a deserializable entry, the read returns at once: 200, exactly the
\* cached value, source "cache"; the cache and the store are untouched and
\* the request has made no select and no setex.
C1_CacheHit ==
  [][\A p \in Procs :
       LET key == KeyOf(req[p])
       IN  ( /\ pc[p] = "get"
             /\ pc'[p] # "get"
             /\ LastCall(trace'[p]) = <<"get", TRUE>>
             /\ cache[key] # NoEntry
             /\ Loads(cache[key]).hit )
           => /\ pc'[p] = "idle"
              /\ resp'[p].status = 200
              /\ resp'[p].source = "cache"
              /\ DataOf(resp'[p]) = Loads(cache[key]).v
              /\ cache' = cache
              /\ books' = books /\ reviews' = reviews
              /\ \A i \in 1..Len(trace'[p]) :
                   trace'[p][i][1] \notin {"select", "setex"}]_vars

C1_Witness ==
  \E p \in Procs :
    /\ Completed(p) /\ IsRead(p)
    /\ resp[p].status = 200 /\ resp[p].source = "cache"
    /\ Len(DataOf(resp[p])) > 0

\* C2. Cache miss: a read whose key is absent at its cache get goes on to
\* the store; the select gives it the store's collection; its setex, when
\* it succeeds, stores exactly that collection under the key with expiry
\* now + 10, and the read returns 200 with it and source "database".
C2_CacheMiss ==
  [][\A p \in Procs :
       LET key == KeyOf(req[p])
       IN  /\ ( pc[p] = "get" /\ pc'[p] # "get" /\ cache[key] = NoEntry )
             => pc'[p] = "load"
           /\ ( pc[p] = "load" /\ LastCall(trace'[p]) = <<"select", TRUE>> )
             => /\ pc'[p] = "setex"
                /\ loc'[p].data \in StoreCollections(req[p])
           /\ ( pc[p] = "setex" /\ pc'[p] # "setex" )
             => /\ pc'[p] = "idle"
                /\ resp'[p].status = 200
                /\ resp'[p].source = "database"
                /\ DataOf(resp'[p]) = loc[p].data
                /\ LastCall(trace'[p]) = <<"setex", TRUE>>
                     => cache' = [cache EXCEPT ![key] =
                                    [t |-> "json", v |-> loc[p].data,
                                     exp |-> now + 10]]]_vars

\* A read that missed on an invalidated key, at a time when an earlier
\* entry has expired, has repopulated the cache.
C2_Witness ==
  \E p \in Procs :
    /\ Completed(p) /\ IsRead(p) /\ NoCallFailed(p)
    /\ resp[p].status = 200 /\ resp[p].source = "database"
    /\ req[p].fresh
    /\ cache[KeyOf(req[p])] # NoEntry
    /\ cache[KeyOf(req[p])].v = DataOf(resp[p])
    /\ Len(DataOf(resp[p])) > 0

\* C3. Read-your-writes for books, requests one after another: a GET /books
\* that returns 200 lists exactly once every book whose POST returned 201
\* after its invalidation reached the cache; the first GET /books after such
\* a write reports source "database"; and a GET /books none of whose calls
\* fails returns 200.
C3_ReadYourBook ==
  \A p \in Procs :
    (Completed(p) /\ req[p].kind = "GET /books") =>
      /\ NoCallFailed(p) => resp[p].status = 200
      /\ resp[p].status = 200 =>
           /\ \A id \in acked[BOOKS_CACHE_KEY] : Count(resp[p].books, id) = 1
           /\ req[p].fresh => resp[p].source = "database"

C3_Witness ==
  \E p \in Procs :
    /\ Completed(p) /\ req[p].kind = "GET /books"
    /\ resp[p].status = 200 /\ req[p].fresh
    /\ acked[BOOKS_CACHE_KEY] # {}
    /\ Len(resp[p].books) > Cardinality(acked[BOOKS_CACHE_KEY])

\* The record a 201 response reports is a row of its table.
Persisted(p) ==
  IF req[p].kind = "POST /books"
    THEN \E i \in 1..Len(books) : Book_to_dict(books[i]) = resp[p].book
    ELSE \E i \in 1..Len(reviews) : Review_to_dict(reviews[i]) = resp[p].review

\* C4. A read racing with a write's invalidation leaves the cache current:
\* when no request is in flight and no call has failed, every cache entry
\* is absent or holds the store's current collection.
C4_RaceLeavesCacheCurrent ==
  ((\A p \in Procs : pc[p] = "idle") /\ nfaults = 0) =>
    /\ cache[BOOKS_CACHE_KEY] = NoEntry
         \/ cache[BOOKS_CACHE_KEY].v = ListBooks(books)
    /\ \A b \in BookIds :
         cache[ReviewsKey(b)] = NoEntry
           \/ cache[ReviewsKey(b)].v \in ListReviews(reviews, b)

\* C5. Staleness is bounded by the TTL: a read that started more than 10
\* time units after a record was committed returns 200 only with a
\* collection that contains the record.
C5_StalenessBounded ==
  \A p \in Procs :
    (Completed(p) /\ IsRead(p) /\ resp[p].status = 200) =>
      IF req[p].kind = "GET /books"
        THEN \A i \in 1..Len(books) :
               books[i].created_at + 10 < req[p].start
                 => Count(resp[p].books, books[i].id) = 1
        ELSE \A i \in ReviewsOf(reviews, req[p].book_id) :
               reviews[i].created_at + 10 < req[p].start
                 => Count(resp[p].reviews, reviews[i].id) = 1

\* C6. A cache error on the read path never changes the outcome: a read of
\* an existing collection whose cache calls raised, with a healthy store,
\* returns 200 with the store's collection and source "database".
C6_CacheErrorIsMiss ==
  \A p \in Procs :
    (Completed(p) /\ IsRead(p) /\ CacheFailed(p) /\ ~StoreFailed(p)) =>
      /\ resp[p].status = 200
      /\ resp[p].source = "database"
      /\ DataOf(resp[p]) \in StoreCollections(req[p])

\* C7. A failing invalidation never fails the write: a POST whose cache
\* delete raised after the commit returns 201 and its record is persisted.
C7_FailedInvalidationKeepsWrite ==
  \A p \in Procs :
    (Completed(p) /\ IsWrite(p) /\ Failed(p, "delete")) =>
      /\ resp[p].status = 201
      /\ Persisted(p)

C7_Witness ==
  \E p \in Procs :
    /\ Completed(p) /\ req[p].kind = "POST /reviews"
    /\ Failed(p, "delete") /\ resp[p].status = 201

\* C8. Ordering inside a successful write: a POST reaches its invalidation
\* only right after a successful commit, with its record persisted, and a
\* 201 response is returned only by a write whose last two calls are the
\* successful commit and then the invalidation.
C8_WriteOrdering ==
  \A p \in Procs :
    IsWrite(p) =>
      /\ pc[p] = "delete" =>
           /\ LastCall(trace[p]) = <<"commit", TRUE>>
           /\ ~Made(p, "delete")
           /\ \E i \in 1..Len(IF req[p].kind = "POST /books"
                                THEN books ELSE reviews) :
                IF req[p].kind = "POST /books"
                  THEN books[i] = loc[p].book
                  ELSE reviews[i] = loc[p].review
      /\ resp[p].status = 201 =>
           /\ Len(trace[p]) >= 2
           /\ trace[p][Len(trace[p]) - 1] = <<"commit", TRUE>>
           /\ trace[p][Len(trace[p])][1] = "delete"
           /\ Persisted(p)

C8_Witness ==
  \E p \in Procs :
    /\ Completed(p) /\ req[p].kind = "POST /books" /\ resp[p].status = 201
    /\ LastCall(trace[p]) = <<"delete", TRUE>>

\* C9. No cross-invalidation: no step of a POST /books changes a
\* reviews:book:<id> entry, and no step of a POST /books/<b>/reviews changes
\* books:all or the entry of another book's reviews.
C9_NoCrossInvalidation ==
  [][\A p \in Procs :
       pc'[p] # pc[p] =>
         /\ req'[p].kind = "POST /books" =>
              \A b \in BookIds : cache'[ReviewsKey(b)] = cache[ReviewsKey(b)]
         /\ req'[p].kind = "POST /reviews" =>
              /\ cache'[BOOKS_CACHE_KEY] = cache[BOOKS_CACHE_KEY]
              /\ \A b \in BookIds \ {req'[p].book_id} :
                   cache'[ReviewsKey(b)] = cache[ReviewsKey(b)]]_vars

\* A review was added, and its invalidation reached the cache, while the
\* book list was cached.
C9_Witness ==
  \E p \in Procs :
    /\ Completed(p) /\ req[p].kind = "POST /reviews" /\ resp[p].status = 201
    /\ LastCall(trace[p]) = <<"delete", TRUE>>
    /\ cache[BOOKS_CACHE_KEY] # NoEntry

\* C10. Read-your-writes for reviews, requests one after another: once a
\* POST /books/<b>/reviews has returned 201 with its delete done, the key
\* reviews:book:<b> is absent; a GET /books/<b>/reviews that returns 200
\* lists exactly once every review acknowledged so, and the first such GET
\* after the write reports source "database".
C10_ReadYourReview ==
  \A p \in Procs :
    /\ ( Completed(p) /\ req[p].kind = "POST /reviews"
         /\ resp[p].status = 201 /\ ~Failed(p, "delete") )
       => cache[ReviewsKey(req[p].book_id)] = NoEntry
    /\ ( Completed(p) /\ req[p].kind = "GET /reviews"
         /\ resp[p].status = 200 )
       => /\ \A id \in acked[ReviewsKey(req[p].book_id)] :
               Count(resp[p].reviews, id) = 1
          /\ req[p].fresh => resp[p].source = "database"

C10_Witness ==
  \E p \in Procs :
    /\ Completed(p) /\ req[p].kind = "GET /reviews"
    /\ resp[p].status = 200 /\ req[p].fresh
    /\ acked[ReviewsKey(req[p].book_id)] # {}
    /\ Len(resp[p].reviews) > 0
\* C11. Invalidation is idempotent: the invalidation step of a write never
\* raises (the write returns 201) and leaves the store unchanged; on a key
\* that is already absent it leaves the whole cache unchanged; and once it
\* has deleted the key, invalidating the same key again changes nothing.
C11_InvalidationIdempotent ==
  [][\A p \in Procs :
       LET key == KeyOf(req[p])
       IN  ( pc[p] = "delete" /\ pc'[p] # "delete" )
           => /\ resp'[p].status = 201
              /\ books' = books /\ reviews' = reviews
              /\ cache[key] = NoEntry => cache' = cache
              /\ LastCall(trace'[p]) = <<"delete", TRUE>>
                   => /\ cache' = invalidate_cache(cache, key, TRUE)
                      /\ invalidate_cache(cache', key, TRUE) = cache']_vars

\* Two writes in a row, and nothing else, have invalidated books:all: the
\* first on the empty cache, the second on the key the first left absent.
C11_Witness ==
  /\ nops = 2
  /\ Completed(1) /\ req[1].kind = "POST /books" /\ resp[1].status = 201
  /\ LastCall(trace[1]) = <<"delete", TRUE>>
  /\ Cardinality(acked[BOOKS_CACHE_KEY]) = 2
\* The table a read lists has had no row added since the read started.
StoreUnchangedSince(p) ==
  req[p].rows = Len(IF req[p].kind = "GET /books" THEN books ELSE reviews)

\* C12. The cache may be wiped at any time: the first read of a key to
\* start after a wipe, for an existing book, with no call failing and no
\* row added meanwhile, returns 200 with exactly the store's current
\* collection and source "database".
C12_WipeKeepsReads ==
  \A p \in Procs :
    ( /\ Completed(p) /\ IsRead(p) /\ req[p].wiped
      /\ NoCallFailed(p) /\ StoreUnchangedSince(p)
      /\ resp[p].status # 404 )
    => /\ resp[p].status = 200
       /\ resp[p].source = "database"
       /\ DataOf(resp[p]) \in StoreCollections(req[p])

\* An integer in 1..5, as a JSON number or as its decimal numeral.
IsRating(j) == j.t \in {"int", "str"} /\ ToInt(j).ok /\ ToInt(j).v \in 1..5

\* C13. Rating validation: a POST /books/<id>/reviews for an existing book,
\* with a healthy store, whose rating is not an integer in 1..5 returns 400
\* without reaching the commit; and every persisted review has a rating in
\* 1..5.
C13_RatingValidated ==
  /\ \A p \in Procs :
       ( /\ Completed(p) /\ req[p].kind = "POST /reviews"
         /\ BookExists(books, req[p].book_id) /\ ~StoreFailed(p)
         /\ ~IsRating(req[p].data.rating) )
       => /\ resp[p].status = 400
          /\ ~Made(p, "commit")
  /\ \A i \in 1..Len(reviews) : reviews[i].rating \in 1..5

\* No row of the books table has the id.
NoSuchBook(id) == \A i \in 1..Len(books) : books[i].id # id

\* C14. A review for a book that does not exist: when the store answers the
\* lookup and finds no book with the id, the POST ends there with 404,
\* whatever its body, leaving the store and the cache as they were.
C14_ReviewOfNoBook ==
  [][\A p \in Procs :
       ( /\ pc[p] = "validate" /\ req[p].kind = "POST /reviews"
         /\ pc'[p] # "validate"
         /\ NoSuchBook(req[p].book_id)
         /\ LastCall(trace'[p]) = <<"get_book", TRUE>> )
       => /\ pc'[p] = "idle"
          /\ resp'[p].status = 404
          /\ books' = books /\ reviews' = reviews
          /\ cache' = cache]_vars

\* A POST with an empty body for a book that is gone, while the cache still
\* holds the reviews of that id, was answered 404.
C14_Witness ==
  /\ Completed(1) /\ req[1].kind = "POST /reviews"
  /\ resp[1].status = 404
  /\ DOMAIN req[1].data = {}
  /\ cache[ReviewsKey(req[1].book_id)] # NoEntry

\* C15. Reviews of a book that does not exist: when the store answers the
\* lookup and finds no book with the id, the GET ends there with 404; the
\* lookup is the only call it has made, so it has neither read nor written
\* the cache, and the cache and the store are as they were.
C15_ReviewsOfNoBook ==
  [][\A p \in Procs :
       ( /\ pc[p] = "get_book" /\ req[p].kind = "GET /reviews"
         /\ pc'[p] # "get_book"
         /\ NoSuchBook(req[p].book_id)
         /\ LastCall(trace'[p]) = <<"get_book", TRUE>> )
       => /\ pc'[p] = "idle"
          /\ resp'[p].status = 404
          /\ trace'[p] = << <<"get_book", TRUE>> >>
          /\ cache' = cache
          /\ books' = books /\ reviews' = reviews]_vars

\* A GET for the reviews of a book that is gone was answered 404 while the
\* cache holds the reviews of that id.
C15_Witness ==
  /\ Completed(1) /\ req[1].kind = "GET /reviews"
  /\ resp[1].status = 404
  /\ cache[ReviewsKey(req[1].book_id)] # NoEntry
  /\ \A i \in 1..Len(trace[1]) : trace[1][i][1] \notin CacheCalls

\* The body gives an isbn that a persisted book has.
IsbnPersisted(data) ==
  /\ "isbn" \in DOMAIN data
  /\ data.isbn.t = "str"
  /\ \E i \in 1..Len(books) : books[i].isbn = data.isbn

\* C16. Duplicate ISBN: when a persisted book has the isbn of the body, the
\* pre-check of a POST /books, with the store answering, ends the request
\* with 400, whatever its title and author; the store is unchanged, the
\* cache is unchanged and no commit and no invalidation was made.
C16_DuplicateIsbn ==
  [][\A p \in Procs :
       ( /\ pc[p] = "validate" /\ req[p].kind = "POST /books"
         /\ pc'[p] # "validate"
         /\ IsbnPersisted(req[p].data)
         /\ NoCallFailed(p)' )
       => /\ pc'[p] = "idle"
          /\ resp'[p].status = 400
          /\ books' = books /\ reviews' = reviews
          /\ cache' = cache
          /\ \A i \in 1..Len(trace'[p]) :
               trace'[p][i][1] \notin {"commit", "delete"}]_vars

\* The isbn of a persisted book was posted again under another title and
\* answered 400 by the pre-check, while the book list is cached.
C16_Witness ==
  \E p \in Procs :
    /\ Completed(p) /\ req[p].kind = "POST /books"
    /\ resp[p].status = 400
    /\ trace[p] = << <<"query_isbn", TRUE>> >>
    /\ \E i \in 1..Len(books) :
         books[i].isbn = req[p].data.isbn /\ books[i].title # req[p].data.title
    /\ cache[BOOKS_CACHE_KEY] # NoEntry

\* The POST of p passed the pre-check with its isbn and reached the commit
\* with a store that answers.
ReachedCommit(p) ==
  /\ req[p].kind = "POST /books"
  /\ Len(trace[p]) >= 2
  /\ trace[p][1] = <<"query_isbn", TRUE>>
  /\ trace[p][2] = <<"commit", TRUE>>

\* C17. ISBN uniqueness: in every reachable state, under any interleaving
\* of POST /books requests, no two persisted books have the same non-null
\* isbn.
C17_IsbnUnique ==
  \A i, j \in 1..Len(books) :
    (i # j /\ books[i].isbn # JNull) => books[i].isbn # books[j].isbn

\* Two requests with the same isbn both passed the pre-check; one has
\* persisted its book and the other was stopped at the commit.
C17_Witness ==
  \E p, q \in Procs :
    /\ p # q
    /\ ReachedCommit(p) /\ ReachedCommit(q)
    /\ req[p].data.isbn = Isbn1 /\ req[q].data.isbn = Isbn1
    /\ Completed(p) /\ resp[p].status = 500
    /\ \E i \in 1..Len(books) : books[i] = loc[q].book

\* The isbn column of the book the POST of p built.
IsbnOf(p) == loc[p].book.isbn

RejectedForIsbn(p) ==
  /\ Completed(p) /\ req[p].kind = "POST /books"
  /\ CheckBook(req[p].data) = 200
  /\ "isbn" \in DOMAIN req[p].data
  /\ req[p].data.isbn.t = "str"
  /\ Strip(req[p].data.isbn.v) = req[p].data.isbn.v
  /\ NoCallFailed(p)
  /\ resp[p].status # 201

\* C19. A duplicate-isbn conflict is always reported as 400: a POST /books
\* turned down for its isbn returns 400, whether the duplicate was found by
\* the pre-check or by the unique constraint at the commit.
C19_ConflictIs400 ==
  \A p \in Procs : RejectedForIsbn(p) => resp[p].status = 400

\* C20. Validation short-circuits before any side effect: the step by which
\* a POST /books returns 400 leaves the store and every cache entry as they
\* were, and the request has made no commit and no cache call, so it has
\* not invalidated books:all.
C20_RejectedWriteHasNoEffect ==
  [][\A p \in Procs :
       ( /\ req[p].kind = "POST /books"
         /\ pc[p] # "idle" /\ pc'[p] = "idle"
         /\ resp'[p].status = 400 )
       => /\ books' = books /\ reviews' = reviews
          /\ cache' = cache
          /\ \A i \in 1..Len(trace'[p]) :
               trace'[p][i][1] \notin CacheCalls \cup {"commit"}]_vars

\* A POST /books was rejected for its publication year while books are
\* persisted and the book list is cached.
C20_Witness ==
  \E p \in Procs :
    /\ Completed(p) /\ req[p].kind = "POST /books"
    /\ resp[p].status = 400
    /\ "publication_year" \in DOMAIN req[p].data
    /\ Len(books) > 0
    /\ cache[BOOKS_CACHE_KEY] # NoEntry

\* C21. Store failure during a write: when the commit of a POST raises, the
\* request ends there with 500; the store holds exactly the records it
\* held, the cache is as it was and the request has made no cache call.
C21_FailedCommitRollsBack ==
  [][\A p \in Procs :
       ( /\ IsWrite(p) /\ pc[p] = "commit" /\ pc'[p] # "commit"
         /\ LastCall(trace'[p]) = <<"commit", FALSE>> )
       => /\ pc'[p] = "idle"
          /\ resp'[p].status = 500
          /\ books' = books /\ reviews' = reviews
          /\ cache' = cache
          /\ \A i \in 1..Len(trace'[p]) :
               trace'[p][i][1] \notin CacheCalls]_vars

\* The commit of a review raised while the reviews of its book are cached:
\* the answer is 500 and the entry is still there.
C21_Witness ==
  \E p \in Procs :
    /\ Completed(p) /\ req[p].kind = "POST /reviews"
    /\ Failed(p, "commit") /\ resp[p].status = 500
    /\ cache[ReviewsKey(req[p].book_id)] # NoEntry
    /\ reviews = <<>>

\* The view of a book agrees with the body it was created from: strings
\* trimmed, the integer year kept, omitted isbn and year null.
RoundTrip(data, book) ==
  /\ book.title = JStr(Strip(data.title.v))
  /\ book.author = JStr(Strip(data.author.v))
  /\ book.isbn = IF "isbn" \in DOMAIN data /\ Strip(data.isbn.v) # <<>>
                   THEN JStr(Strip(data.isbn.v)) ELSE JNull
  /\ "publication_year" \notin DOMAIN data => book.publication_year = JNull
  /\ ( "publication_year" \in DOMAIN data /\ data.publication_year.t = "int" )
       => book.publication_year = data.publication_year

\* C22. Round-trip of a created book: the book of every 201 response of
\* POST /books agrees with the submitted body, and every book a GET /books
\* lists is the view of the stored row with its id, which no later step
\* changes.
C22_BookRoundTrip ==
  /\ \A p \in Procs :
       /\ ( Completed(p) /\ req[p].kind = "POST /books"
            /\ resp[p].status = 201 )
          => /\ RoundTrip(req[p].data, resp[p].book)
             /\ resp[p].book.id \in 1..Len(books)
             /\ resp[p].book = Book_to_dict(books[resp[p].book.id])
       /\ ( Completed(p) /\ req[p].kind = "GET /books"
            /\ resp[p].status = 200 )
          => \A k \in 1..Len(resp[p].books) :
               /\ resp[p].books[k].id \in 1..Len(books)
               /\ resp[p].books[k] = Book_to_dict(books[resp[p].books[k].id])
  /\ \A i \in 1..Len(books) : books[i].id = i

\* A GET /books served from the cache lists the book that was posted with
\* padded title, author and isbn, with the values trimmed.
C22_Witness ==
  \E p \in Procs :
    /\ Completed(p) /\ req[p].kind = "GET /books" /\ resp[p].status = 200
    /\ resp[p].source = "cache"
    /\ \E k \in 1..Len(resp[p].books) :
         /\ resp[p].books[k].title = JStr(<<"c">>)
         /\ resp[p].books[k].author = JStr(<<"c">>)
         /\ resp[p].books[k].isbn = Isbn1
         /\ resp[p].books[k].publication_year = JInt(2000)

\* C23. Second read hits the cache.  A GET /books that answers from the
\* store with its cache set done leaves its list under books:all with
\* expiry now + 10; the entry then changes only by the passing of time
\* reaching its expiry, by the invalidation of a POST /books or by the
\* cache set of a GET /books; and a GET /books whose cache get succeeds
\* while the entry is there returns source "cache" with the entry's list,
\* the empty list included.
C23_SecondReadHits ==
  [][/\ \A p \in Procs :
          /\ ( /\ req[p].kind = "GET /books"
               /\ pc[p] = "setex" /\ pc'[p] = "idle"
               /\ LastCall(trace'[p]) = <<"setex", TRUE>> )
             => /\ resp'[p].source = "database"
                /\ cache'[BOOKS_CACHE_KEY] # NoEntry
                /\ cache'[BOOKS_CACHE_KEY].v = resp'[p].books
                /\ cache'[BOOKS_CACHE_KEY].exp = now + 10
          /\ ( /\ req[p].kind = "GET /books"
               /\ pc[p] = "get" /\ pc'[p] # "get"
               /\ LastCall(trace'[p]) = <<"get", TRUE>>
               /\ cache[BOOKS_CACHE_KEY] # NoEntry )
             => /\ pc'[p] = "idle"
                /\ resp'[p].status = 200
                /\ resp'[p].source = "cache"
                /\ resp'[p].books = cache[BOOKS_CACHE_KEY].v
     /\ cache'[BOOKS_CACHE_KEY] # cache[BOOKS_CACHE_KEY]
          => \/ /\ now' > now
                /\ cache[BOOKS_CACHE_KEY].exp <= now'
                /\ cache'[BOOKS_CACHE_KEY] = NoEntry
             \/ \E p \in Procs :
                  /\ trace'[p] # trace[p]
                  /\ \/ /\ req[p].kind = "GET /books"
                        /\ LastCall(trace'[p]) = <<"setex", TRUE>>
                     \/ /\ req[p].kind = "POST /books"
                        /\ LastCall(trace'[p]) = <<"delete", TRUE>>]_vars

\* With no book in the store, the second of two GET /books, four time
\* units after the first, answered the empty list from the cache.
C23_Witness ==
  /\ nops = 2 /\ now = Quantum
  /\ Completed(1) /\ req[1].kind = "GET /books" /\ req[1].start = Quantum
  /\ resp[1].status = 200 /\ resp[1].source = "cache"
  /\ resp[1].books = <<>>

\* The timestamp an ISO-8601 string denotes.
TimeOf(iso) == iso[2]

\* C24. Review listings are newest first: the reviews of every 200
\* response of GET /books/<id>/reviews, from the store or from the cache,
\* are in descending order of created_at and all have book_id = <id>.
C24_NewestFirst ==
  \A p \in Procs :
    ( Completed(p) /\ req[p].kind = "GET /reviews" /\ resp[p].status = 200 )
    => LET rs == resp[p].reviews
       IN  /\ \A i, j \in 1..Len(rs) :
                i < j => TimeOf(rs[i].created_at) >= TimeOf(rs[j].created_at)
           /\ \A i \in 1..Len(rs) : rs[i].book_id = req[p].book_id

\* A listing served from the cache holds an older and a newer review of
\* the book, the newer first, while the other book has a review too.
C24_Witness ==
  \E p \in Procs :
    /\ Completed(p) /\ req[p].kind = "GET /reviews" /\ resp[p].status = 200
    /\ resp[p].source = "cache"
    /\ Len(resp[p].reviews) = 2
    /\ TimeOf(resp[p].reviews[1].created_at)
         > TimeOf(resp[p].reviews[2].created_at)
    /\ \E i \in 1..Len(reviews) : reviews[i].book_id # req[p].book_id

\* C25. Referential integrity: in every reachable state, under any
\* interleaving of requests, the book_id of every persisted review is the
\* id of a persisted book.
C25_ReviewsHaveBooks ==
  \A i \in 1..Len(reviews) : ~NoSuchBook(reviews[i].book_id)

\* One thread has persisted a review of a book while the review another
\* thread posted for a book that does not exist was answered 404.
C25_Witness ==
  \E p, q \in Procs :
    /\ Completed(p) /\ req[p].kind = "POST /reviews" /\ resp[p].status = 201
    /\ Completed(q) /\ req[q].kind = "POST /reviews" /\ resp[q].status = 404
    /\ NoSuchBook(req[q].book_id)
    /\ Len(reviews) = 1

\* The table is the old one, or the old one with one row appended whose id
\* no old row has.
Grown(old, new) ==
  \/ new = old
  \/ /\ Len(new) = Len(old) + 1
     /\ SubSeq(new, 1, Len(old)) = old
     /\ \A i \in 1..Len(old) : old[i].id # new[Len(new)].id

\* C26. The store only grows through add operations: every step leaves
\* each table as it was or appends one row with a fresh id, never to both
\* tables at once; and a row is appended only by the commit of the POST
\* of its collection.
C26_StoreOnlyGrows ==
  [][/\ Grown(books, books') /\ Grown(reviews, reviews')
     /\ books' = books \/ reviews' = reviews
     /\ books' # books =>
          \E p \in Procs : /\ req[p].kind = "POST /books"
                           /\ pc[p] = "commit" /\ pc'[p] = "delete"
     /\ reviews' # reviews =>
          \E p \in Procs : /\ req[p].kind = "POST /reviews"
                           /\ pc[p] = "commit" /\ pc'[p] = "delete"]_vars

\* Two books and a review have been added, one request after another.
C26_Witness ==
  /\ Len(books) = 2 /\ Len(reviews) = 1
  /\ books[1].id # books[2].id
  /\ Completed(1) /\ resp[1].status = 201

\* C27. A failing cache write on the miss path is a no-op for the caller:
\* when the cache set of a read raises, the read still returns 200 with
\* the collection it loaded, which is the store's, and source "database",
\* and the cache is left as it was.
C27_FailedCacheSet ==
  [][\A p \in Procs :
       ( /\ IsRead(p) /\ pc[p] = "setex" /\ pc'[p] # "setex"
         /\ LastCall(trace'[p]) = <<"setex", FALSE>> )
       => /\ pc'[p] = "idle"
          /\ resp'[p].status = 200
          /\ resp'[p].source = "database"
          /\ DataOf(resp'[p]) = loc[p].data
          /\ DataOf(resp'[p]) \in StoreCollections(req[p])
          /\ cache' = cache
          /\ books' = books /\ reviews' = reviews]_vars

\* A read whose cache set raised returned a non-empty collection from the
\* store, and its key is still absent.
C27_Witness ==
  \E p \in Procs :
    /\ Completed(p) /\ IsRead(p) /\ Failed(p, "setex")
    /\ resp[p].status = 200 /\ resp[p].source = "database"
    /\ Len(DataOf(resp[p])) > 0
    /\ cache[KeyOf(req[p])] = NoEntry

\* C28. A cache entry that is present but does not deserialize is treated
\* as a miss: the read goes on to the store instead of answering, stores
\* what it loaded over the entry with an expiry of 10 and answers with
\* source "database"; no read ever returns the undeserializable value.
C28_GarbledIsMiss ==
  [][\A p \in Procs : IsRead(p) =>
       LET k == KeyOf(req[p]) IN
       /\ ( /\ pc[p] = "get" /\ pc'[p] # "get"
            /\ LastCall(trace'[p]) = <<"get", TRUE>>
            /\ cache[k] # NoEntry /\ cache[k].t # "json" )
          => /\ pc'[p] = "load"
             /\ resp'[p] = resp[p]
             /\ cache' = cache
       /\ ( /\ pc[p] = "setex" /\ pc'[p] # "setex"
            /\ LastCall(trace'[p]) = <<"setex", TRUE>>
            /\ cache[k] # NoEntry /\ cache[k].t # "json" )
          => /\ DataOf(resp'[p]) \in StoreCollections(req[p])
             /\ resp'[p].status = 200
             /\ resp'[p].source = "database"
             /\ cache'[k] = [t |-> "json", v |-> DataOf(resp'[p]),
                             exp |-> now + 10]
       /\ ( /\ resp'[p] # resp[p] /\ resp'[p].status = 200 )
          => DataOf(resp'[p]) # Garbled.v]_vars

\* A read found an entry that does not deserialize, loaded a non-empty
\* collection from the store and is about to store it over the entry.
C28_Witness ==
  \E p \in Procs :
    /\ IsRead(p) /\ pc[p] = "setex"
    /\ Made(p, "get")
    /\ cache[KeyOf(req[p])] # NoEntry
    /\ cache[KeyOf(req[p])].t = "raw"
    /\ Len(loc[p].data) > 0

\* The key a request's handler names: books:all for the two book handlers,
\* reviews:book:<id> for the two review handlers.
NamedKey(r) ==
  IF r.kind \in {"GET /books", "POST /books"}
    THEN <<"books:all">> ELSE <<"reviews:book:", r.book_id>>

\* The book a review request names is persisted.
BookKnown(r) ==
  r.kind \in {"GET /reviews", "POST /reviews"} => ~NoSuchBook(r.book_id)

\* C29. Cache key set: an entry changes only by expiring, by the delete of
\* a write or by the set of a read; the key deleted or set is books:all or
\* reviews:book:<id> for the id of a book persisted at that moment, an
\* entry that is set expires 10 time units later, and no key book:<id>
\* ever holds an entry.
C29_CacheKeys ==
  [][/\ \A k \in Keys : cache'[k] # cache[k] =>
          \/ /\ cache'[k] = NoEntry
             /\ now' # now
          \/ /\ cache'[k] = NoEntry
             /\ \E p \in Procs :
                  /\ IsWrite(p) /\ pc[p] = "delete" /\ pc'[p] # "delete"
                  /\ k = NamedKey(req[p]) /\ BookKnown(req[p])
          \/ /\ cache'[k] # NoEntry
             /\ cache'[k].exp = now + 10
             /\ \E p \in Procs :
                  /\ IsRead(p) /\ pc[p] = "setex" /\ pc'[p] # "setex"
                  /\ k = NamedKey(req[p]) /\ BookKnown(req[p])
     /\ \A p \in Procs :
          ( /\ pc[p] \in {"setex", "delete"} /\ pc'[p] # pc[p]
            /\ LastCall(trace'[p])[2] )
          => /\ BookKnown(req[p])
             /\ \A k \in Keys \ {NamedKey(req[p])} : cache'[k] = cache[k]
             /\ pc[p] = "delete" => cache'[NamedKey(req[p])] = NoEntry
             /\ pc[p] = "setex" => cache'[NamedKey(req[p])] # NoEntry
     /\ \A b \in BookIds : cache'[<<"book:", b>>] = NoEntry]_vars

\* Both kinds of key hold an entry written by a read, while a book id that
\* was asked for has no book and no entry.
C29_Witness ==
  /\ cache[<<"books:all">>] # NoEntry
  /\ \E b \in BookIds : cache[<<"reviews:book:", b>>] # NoEntry
  /\ \E b \in BookIds :
       /\ NoSuchBook(b)
       /\ cache[<<"reviews:book:", b>>] = NoEntry
       /\ Completed(1) /\ resp[1].status = 404 /\ req[1].book_id = b

\* The isbn of the body as it would be stored: trimmed.
TrimmedIsbn(data) == Strip(data.isbn.v)

\* A persisted book has the trimmed isbn of the body.
TrimmedIsbnPersisted(data) ==
  /\ TrimmedIsbn(data) # <<>>
  /\ \E i \in 1..Len(books) :
       /\ books[i].isbn.t = "str"
       /\ books[i].isbn.v = TrimmedIsbn(data)

\* C30. The duplicate-isbn check is made on the trimmed isbn: the pre-check
\* of a valid POST /books whose isbn, once trimmed, is the isbn of a
\* persisted book ends the request with 400 and the store unchanged; an
\* isbn that is empty once trimmed is no conflict and is stored as null.
C30_TrimmedIsbnCheck ==
  [][\A p \in Procs :
       ( /\ req[p].kind = "POST /books"
         /\ pc[p] = "validate" /\ pc'[p] # "validate"
         /\ CheckBook(req[p].data) = 200
         /\ "isbn" \in DOMAIN req[p].data
         /\ req[p].data.isbn.t = "str"
         /\ (trace'[p] # trace[p] => LastCall(trace'[p])[2]) )
       => /\ TrimmedIsbnPersisted(req[p].data)
             => /\ pc'[p] = "idle"
                /\ resp'[p].status = 400
                /\ books' = books
          /\ TrimmedIsbn(req[p].data) = <<>>
             => /\ pc'[p] = "commit"
                /\ loc'[p].book.isbn = JNull]_vars

\* The book list the store held when it had its first n rows.
PastBooks(n) == [i \in 1..n |-> Book_to_dict(books[i])]

\* The review lists of book b the store could return when it had its first
\* n review rows.
PastReviews(n, b) == ListReviews(SubSeq(reviews, 1, n), b)

\* C31. The cache only holds past store states: under any interleaving of
\* reads and writes, the value under books:all is the book list of the
\* store at an earlier or the current moment, a prefix of the current list,
\* and the value under reviews:book:<b> is a review list of book b at an
\* earlier or the current moment; every cached record is persisted.
C31_CacheHoldsPastStates ==
  /\ cache[<<"books:all">>] # NoEntry
       => /\ cache[<<"books:all">>].t = "json"
          /\ \E n \in 0..Len(books) : cache[<<"books:all">>].v = PastBooks(n)
  /\ \A b \in BookIds :
       cache[<<"reviews:book:", b>>] # NoEntry
         => /\ cache[<<"reviews:book:", b>>].t = "json"
            /\ \E n \in 0..Len(reviews) :
                 cache[<<"reviews:book:", b>>].v \in PastReviews(n, b)

\* After every request has returned, books:all holds a list the store had
\* earlier, non-empty and shorter than the current one.
C31_Witness ==
  /\ cache[<<"books:all">>] # NoEntry
  /\ Len(cache[<<"books:all">>].v) >= 1
  /\ Len(cache[<<"books:all">>].v) < Len(books)
  /\ \A p \in Procs : pc[p] = "idle"

\* Every entry the cache holds is a current collection of the store, and no
\* request is being served.
Converged ==
  /\ \A p \in Procs : pc[p] = "idle"
  /\ cache[<<"books:all">>] # NoEntry
       => cache[<<"books:all">>].v = PastBooks(Len(books))
  /\ \A b \in BookIds :
       cache[<<"reviews:book:", b>>] # NoEntry
         => cache[<<"reviews:book:", b>>].v \in PastReviews(Len(reviews), b)

\* C32. Eventual convergence: once writes have stopped, with requests and
\* time going on, the cache comes to hold, for ever, nothing but current
\* collections of the store, whatever stale entries it held: from then on
\* a read returns the store's current collection, from the cache or from
\* the store.
C32_Converges == <>[]Converged

\* A read was served a book list from the cache that misses a persisted
\* book; later the entries of that time have expired.
C32_Witness ==
  \E p \in Procs :
    /\ Completed(p) /\ req[p].kind = "GET /books"
    /\ resp[p].status = 200 /\ resp[p].source = "cache"
    /\ Len(resp[p].books) < Len(books)
    /\ now >= req[p].start + expire_time
    /\ \A k \in Keys : cache[k] = NoEntry

\* The body of a review is one the validation turns down: empty, without
\* reviewer_name or rating, with a blank name or with a rating that is no
\* integer of 1..5.
BadReviewBody(data) ==
  \/ DOMAIN data = {}
  \/ "reviewer_name" \notin DOMAIN data
  \/ "rating" \notin DOMAIN data
  \/ data.reviewer_name.t = "str" /\ Strip(data.reviewer_name.v) = <<>>
  \/ data.rating.t = "int" /\ (data.rating.v < 1 \/ data.rating.v > 5)

\* C33. Not-found takes precedence over validation in POST
\* /books/<id>/reviews: when the store answers the lookup and finds no book,
\* a request whose body the validation would turn down is answered 404; a
\* POST of a review is answered 400 only when its book is persisted.
C33_NotFoundBeforeValidation ==
  [][\A p \in Procs :
       ( /\ req[p].kind = "POST /reviews"
         /\ pc[p] = "validate" /\ pc'[p] # "validate" )
       => /\ ( /\ NoSuchBook(req[p].book_id)
               /\ BadReviewBody(req[p].data)
               /\ LastCall(trace'[p]) = <<"get_book", TRUE>> )
             => pc'[p] = "idle" /\ resp'[p].status = 404
          /\ (pc'[p] = "idle" /\ resp'[p].status = 400)
             => /\ ~NoSuchBook(req[p].book_id)
                /\ BadReviewBody(req[p].data)]_vars

\* A review with a rating out of range posted for a book that is not
\* persisted was answered 404.
C33_Witness ==
  /\ Completed(1) /\ req[1].kind = "POST /reviews"
  /\ resp[1].status = 404
  /\ NoSuchBook(req[1].book_id)
  /\ "rating" \in DOMAIN req[1].data
  /\ req[1].data.rating = JInt(6)

\* The request is one of the three reads.
IsGet(r) == r.kind \in {"GET /books", "GET /reviews", "GET /health"}

\* The cache keys a read may change: the key of the collection it asked
\* for; none for the health check.
OwnKeys(r) == IF r.kind = "GET /health" THEN {} ELSE {NamedKey(r)}

\* C34. Reads never change the store: every step of a GET /books, a GET
\* /books/<id>/reviews or a GET /health, from its arrival to its answer,
\* whatever the answer and whatever the cache and the store do, leaves the
\* persisted books and reviews as they were and changes no cache entry but
\* that of the collection asked for.
C34_ReadsChangeNothing ==
  [][\A p \in Procs :
       (pc'[p] # pc[p] /\ IsGet(IF pc[p] = "idle" THEN req'[p] ELSE req[p]))
       => /\ books' = books
          /\ reviews' = reviews
          /\ \A k \in Keys :
               cache'[k] # cache[k]
                 => /\ pc[p] # "idle"
                    /\ k \in OwnKeys(req[p])]_vars

\* A health check answered 200 with the cache disconnected, while books
\* are persisted and the book list is cached.
C34_Witness ==
  /\ Completed(1) /\ req[1].kind = "GET /health"
  /\ resp[1].status = 200 /\ resp[1].cache = "disconnected"
  /\ Len(books) = 2
  /\ cache[<<"books:all">>] # NoEntry
====
